---- MODULE Spec2Model ----
(***************************************************************************)
(* A model of the Sqlt3 wrapper around the SQLite3 C interface             *)
(* (include/SQLiteWrapped.hpp, src/SQLiteWrapped.cpp).                     *)
(*                                                                         *)
(* The wrapper is a layer of adaptors: every adaptor calls one native      *)
(* operation, classifies its result code, raises std::runtime_error on a   *)
(* failing code and hands handles out in std::unique_ptr wrappers with a   *)
(* custom deleter.  The model has two parts:                               *)
(*   - the native engine, as the environment: handles with a kind, a       *)
(*     lifetime state, a last-error text and a mark left by a release      *)
(*     call made after the release;                                        *)
(*   - the client's RAII objects (unique_connection, unique_statement,     *)
(*     unique_backup, detail::initialize_t) held in a few object slots,    *)
(*     and the adaptors acting on them.                                    *)
(* The adaptors that return values (string accessors, column metadata,     *)
(* status pairs, scan status, the remainder of prepare) are modelled with  *)
(* what the engine wrote and how the call ended; a round-trip program      *)
(* runs open, prepare, step, column, step, finalize, close in order.       *)
(***************************************************************************)
EXTENDS Integers, Sequences, FiniteSets, TLC

VARIABLES
    obj,        \* the client's RAII objects, one per slot
    native,     \* the engine's view of every native handle
    initOK,     \* number of successful ::sqlite3_initialize calls
    shutdowns,  \* number of ::sqlite3_shutdown calls
    last,       \* the last adaptor call or object operation and its outcome
    code,       \* classification: the result code under test
    verdict,    \* classification: what result_is_error says of code
    stat,       \* the engine's status counter: current value and high-water mark
    ret,        \* the last value-returning adaptor call: inputs, native outputs, result
    pc          \* the round-trip program: its position and what it has seen

vars == <<obj, native, initOK, shutdowns, last, code, verdict, stat, ret, pc>>

(***************************************************************************)
(* Bounds of the model.                                                    *)
(***************************************************************************)
NumSlots == 2       \* object slots of the client
MaxHandles == 2     \* native handles the engine hands out
MaxInit == 2        \* successful initialize calls
MaxShutdowns == 3   \* shutdown calls before token moves stop
MaxCode == 110      \* result codes classified: -MaxCode..MaxCode
MaxText == 2        \* code units of a text the engine hands out
MaxStat == 2        \* largest value of the engine's status counter
MaxSql == 4         \* code units of an SQL text handed to prepare

Slots == 1..NumSlots
Handles == 1..MaxHandles

(***************************************************************************)
(* Program constants.                                                      *)
(***************************************************************************)
SQLITE_OK == 0
SQLITE_ROW == 100
SQLITE_DONE == 101
nullptr == 0

\* Failing result codes the engine is made to return (SQLITE_ERROR,
\* SQLITE_BUSY, SQLITE_LOCKED, SQLITE_NOMEM, SQLITE_CANTOPEN, SQLITE_MISUSE).
EngineCode ==
    [error |-> 1, busy |-> 5, locked |-> 6, nomem |-> 7, cantopen |-> 14, misuse |-> 21]

(***************************************************************************)
(* Error classification and reporting.                                     *)
(***************************************************************************)
error_string_without_details(c) == <<"SQLite error(", c, ")">>

result_is_error_no_done(c) == ~(c = SQLITE_OK \/ c = SQLITE_ROW)

result_is_error(c) == ~(c = SQLITE_OK \/ c = SQLITE_ROW \/ c = SQLITE_DONE)

\* ::sqlite3_errstr: the global code-to-string lookup.
sqlite3_errstr(c) ==
    CASE c = SQLITE_OK -> "not an error"
      [] c = EngineCode.error -> "SQL logic error"
      [] c = EngineCode.busy -> "database is locked"
      [] c = EngineCode.locked -> "database table is locked"
      [] c = EngineCode.nomem -> "out of memory"
      [] c = EngineCode.cantopen -> "unable to open database file"
      [] c = EngineCode.misuse -> "bad parameter or other API misuse"
      [] c = SQLITE_ROW -> "another row available"
      [] c = SQLITE_DONE -> "no more rows available"
      [] OTHER -> "unknown error"

\* ::sqlite3_errmsg: the connection's last-error text; "out of memory" for
\* a null connection.
sqlite3_errmsg(nat, db) ==
    IF db = nullptr THEN "out of memory" ELSE nat[db].errmsg

NoThrow == [thrown |-> FALSE]

runtime_error(c, text) ==
    [thrown |-> TRUE, code |-> c,
     what |-> error_string_without_details(c) \o <<": ", text>>]

\* An argument of a forwarded call: its static type and its value.
Arg(t, v) == [type |-> t, val |-> v]

throw_error_always_global(nat, c, args) == runtime_error(c, sqlite3_errstr(c))

\* The two throw_error overloads: the one taking sqlite3_t is chosen when
\* the first forwarded argument is a connection.
throw_error(nat, c, args) ==
    IF Len(args) > 0 /\ args[1].type = "sqlite3_t"
    THEN runtime_error(c, sqlite3_errmsg(nat, args[1].val))
    ELSE runtime_error(c, sqlite3_errstr(c))

\* invoke_with_result_error, given the code the native call returned and
\* the engine state it left.
invoke_with_result_error(nat, c, args) ==
    IF result_is_error(c) THEN throw_error(nat, c, args) ELSE NoThrow

(***************************************************************************)
(* The native engine.  A native operation maps the engine state to the     *)
(* set of outcomes [code, nat] it can have.                                *)
(***************************************************************************)
Unalloc ==
    [kind |-> "none", state |-> "unalloc", parent |-> nullptr,
     errmsg |-> "", misused |-> FALSE]

\* A released object: its memory is gone, what is left is that it existed
\* and whether a release function was called on it again.
Released(k, misused) ==
    [kind |-> k, state |-> "released", parent |-> nullptr,
     errmsg |-> "", misused |-> misused]

Live(k, parent) ==
    [kind |-> k, state |-> "live", parent |-> parent,
     errmsg |-> "not an error", misused |-> FALSE]

FreeHandles(nat) == {h \in Handles : nat[h].state = "unalloc"}

\* The handle the engine allocates next.
Fresh(nat) == CHOOSE h \in FreeHandles(nat) : \A g \in FreeHandles(nat) : h <= g

\* Statements and backups of a connection that are not yet released.
Dependents(nat, db) ==
    {d \in Handles : nat[d].state = "live" /\ nat[d].parent = db}

Outcome(c, nat) == [code |-> c, nat |-> nat]

\* A release call on a handle that was released before: undefined
\* behaviour, any result code.
ReleaseAfterRelease(nat, p) ==
    {Outcome(c, [nat EXCEPT ![p] = Released(nat[p].kind, TRUE)]) :
        c \in {SQLITE_OK, EngineCode.misuse}}

\* ::sqlite3_close: refuses with SQLITE_BUSY while the connection has
\* unfinalized statements or unfinished backups.
native_close(nat, p) ==
    IF p = nullptr THEN {Outcome(SQLITE_OK, nat)}
    ELSE IF nat[p].state # "live" THEN ReleaseAfterRelease(nat, p)
    ELSE IF Dependents(nat, p) # {}
    THEN {Outcome(EngineCode.busy,
                  [nat EXCEPT ![p].errmsg = "unable to close due to unfinalized statements or unfinished backups"])}
    ELSE {Outcome(SQLITE_OK, [nat EXCEPT ![p] = Released(nat[p].kind, FALSE)])}

\* ::sqlite3_close_v2: closes also with dependents outstanding.
native_close_v2(nat, p) ==
    IF p = nullptr THEN {Outcome(SQLITE_OK, nat)}
    ELSE IF nat[p].state # "live" THEN ReleaseAfterRelease(nat, p)
    ELSE {Outcome(SQLITE_OK, [nat EXCEPT ![p] = Released(nat[p].kind, FALSE)])}

\* ::sqlite3_finalize and ::sqlite3_backup_finish: always destroy the
\* object; the code is the error, if any, of the work done with it.
native_destroy(nat, p) ==
    IF p = nullptr THEN {Outcome(SQLITE_OK, nat)}
    ELSE IF nat[p].state # "live" THEN ReleaseAfterRelease(nat, p)
    ELSE {Outcome(c, [nat EXCEPT ![p] = Released(nat[p].kind, FALSE)]) :
            c \in {SQLITE_OK, EngineCode.error}}

native_finalize(nat, p) == native_destroy(nat, p)

native_backup_finish(nat, p) == native_destroy(nat, p)

\* ::sqlite3_open, ::sqlite3_open16, ::sqlite3_open_v2: success, failure
\* with a connection produced (the file cannot be opened, or the VFS named
\* by the call or by the URI is unknown), or failure with no connection.
native_open(nat) ==
    {[code |-> EngineCode.nomem, h |-> nullptr, nat |-> nat]}
    \cup
    (IF FreeHandles(nat) = {} THEN {}
     ELSE LET h == Fresh(nat) IN
          {[code |-> SQLITE_OK, h |-> h,
            nat |-> [nat EXCEPT ![h] = Live("sqlite3", nullptr)]],
           [code |-> EngineCode.cantopen, h |-> h,
            nat |-> [nat EXCEPT ![h] = [Live("sqlite3", nullptr) EXCEPT
                                         !.errmsg = "unable to open database file"]]],
           [code |-> EngineCode.error, h |-> h,
            nat |-> [nat EXCEPT ![h] = [Live("sqlite3", nullptr) EXCEPT
                                         !.errmsg = "no such vfs: none"]]]})

\* ::sqlite3_prepare and its variants on a live connection: a statement,
\* no statement for empty SQL text, or a failure with the error text set.
native_prepare(nat, db) ==
    {[code |-> SQLITE_OK, stmt |-> nullptr, nat |-> nat],
     [code |-> EngineCode.error, stmt |-> nullptr,
      nat |-> [nat EXCEPT ![db].errmsg = "near \"SELEC\": syntax error"]]}
    \cup
    (IF FreeHandles(nat) = {} THEN {}
     ELSE LET h == Fresh(nat) IN
          {[code |-> SQLITE_OK, stmt |-> h,
            nat |-> [nat EXCEPT ![h] = Live("sqlite3_stmt", db)]]})

\* ::sqlite3_backup_init from some other source connection into dest: a
\* backup object, or null with the error left on dest.
native_backup_init(nat, dest) ==
    {[ptr |-> nullptr, errcode |-> EngineCode.error,
      nat |-> [nat EXCEPT ![dest].errmsg = "destination database is in use"]]}
    \cup
    (IF FreeHandles(nat) = {} THEN {}
     ELSE LET h == Fresh(nat) IN
          {[ptr |-> h, errcode |-> SQLITE_OK,
            nat |-> [nat EXCEPT ![h] = Live("sqlite3_backup", dest)]]})

\* A native operation on a live connection that changes nothing but the
\* connection's error text (db_status, busy_handler, busy_timeout,
\* table_column_metadata).
native_on_connection(nat, db, failure, text) ==
    {Outcome(SQLITE_OK, nat),
     Outcome(failure, [nat EXCEPT ![db].errmsg = text])}

\* The native operation on a live statement: the error text is left on the
\* statement's connection.
native_on_statement(nat, st, failure, text) ==
    {Outcome(SQLITE_OK, nat),
     Outcome(failure, [nat EXCEPT ![nat[st].parent].errmsg = text])}

\* A native operation with no connection (initialize, shutdown, status,
\* status64).
native_global(nat, failure) == {Outcome(SQLITE_OK, nat), Outcome(failure, nat)}

(***************************************************************************)
(* Resource ownership: std::unique_ptr with the three deleters, and the    *)
(* initialization token.                                                   *)
(***************************************************************************)
Dead == [kind |-> "dead"]

WrapperKinds == {"unique_connection", "unique_statement", "unique_backup"}

Wrapper(k, h) == [kind |-> k, h |-> h]

Token(m) == [kind |-> "initialize_t", moved |-> m]

IsWrapper(o) == o.kind \in WrapperKinds

IsToken(o) == o.kind = "initialize_t"

Done(exc, nat) == [exc |-> exc, nat |-> nat]

\* What running a deleter did: the code the native release returned (rc),
\* the exception that left the deleter, the engine state.
Deleted(rc, exc, nat) == [rc |-> rc, exc |-> exc, nat |-> nat]

BackupDeleter(nat, p) == {Deleted(r.code, NoThrow, r.nat) : r \in native_backup_finish(nat, p)}

ConnectionDeleter(nat, p) == {Deleted(r.code, NoThrow, r.nat) : r \in native_close(nat, p)}

StatementDeleter_throwing(nat, p) ==
    {Deleted(r.code, invoke_with_result_error(r.nat, r.code, <<Arg("sqlite3_stmt_t", p)>>),
             r.nat) : r \in native_finalize(nat, p)}

StatementDeleter(nat, p) == {Deleted(r.code, NoThrow, r.nat) : r \in native_finalize(nat, p)}

Deleter(k, nat, p) ==
    CASE k = "unique_connection" -> ConnectionDeleter(nat, p)
      [] k = "unique_statement" -> StatementDeleter(nat, p)
      [] k = "unique_backup" -> BackupDeleter(nat, p)

\* std::unique_ptr::~unique_ptr and reset: the deleter runs on a non-null
\* pointer only.
unique_ptr_dtor(k, nat, p) ==
    IF p = nullptr THEN {Deleted(SQLITE_OK, NoThrow, nat)} ELSE Deleter(k, nat, p)

initialize_t_move_keeps_source(x) == [self |-> Token(FALSE), x |-> x]

\* initialize_t(initialize_t&& x): the new token starts with moved = false.
initialize_t_move(x) == [self |-> Token(FALSE), x |-> Token(TRUE)]

initialize_t_assign_unguarded(self, x, same) ==
    [self |-> IF same THEN Token(TRUE) ELSE self, x |-> Token(TRUE)]

\* initialize_t::operator=(initialize_t&& x); same: this == &x.
initialize_t_assign(self, x, same) ==
    [self |-> self, x |-> IF ~same THEN Token(TRUE) ELSE x]

\* initialize_t::~initialize_t: the number of ::sqlite3_shutdown calls made;
\* the code ::sqlite3_shutdown returns is dropped.
initialize_t_dtor(t, nat) ==
    IF ~t.moved
    THEN {[rc |-> r.code, exc |-> NoThrow, calls |-> 1] :
            r \in native_global(nat, EngineCode.error)}
    ELSE {[rc |-> SQLITE_OK, exc |-> NoThrow, calls |-> 0]}

(***************************************************************************)
(* Operation adaptors.  An adaptor maps the engine state (and the wrapper  *)
(* it is given) to the set of its outcomes: the exception raised, if any,  *)
(* the engine state left, and the wrapper left or returned.                *)
(***************************************************************************)
\* The last-error text the engine left on the connection an open produced.
OpenText(r) == IF r.h = nullptr THEN "" ELSE r.nat[r.h].errmsg

open_connection_unowned(nat) ==
    {IF result_is_error(r.code)
     THEN [exc |-> throw_error(r.nat, r.code, <<Arg("sqlite3_t", r.h)>>),
           ret |-> Dead, nat |-> r.nat, h |-> r.h, rc |-> r.code, left |-> OpenText(r)]
     ELSE [exc |-> NoThrow, ret |-> Wrapper("unique_connection", r.h),
           nat |-> r.nat, h |-> r.h, rc |-> r.code, left |-> OpenText(r)] :
        r \in native_open(nat)}

open_connection_global_text(nat) ==
    UNION {IF result_is_error(r.code)
           THEN {[exc |-> throw_error(r.nat, r.code, <<>>),
                  ret |-> Dead, nat |-> d.nat, h |-> r.h, rc |-> r.code,
                  left |-> OpenText(r)] :
                    d \in unique_ptr_dtor("unique_connection", r.nat, r.h)}
           ELSE {[exc |-> NoThrow, ret |-> Wrapper("unique_connection", r.h),
                  nat |-> r.nat, h |-> r.h, rc |-> r.code, left |-> OpenText(r)]} :
           r \in native_open(nat)}

\* open_connection: the handle is wrapped before the code is classified;
\* on a failing code the wrapper is destroyed by the unwinding.
open_connection(nat) ==
    UNION {IF result_is_error(r.code)
           THEN {[exc |-> throw_error(r.nat, r.code, <<Arg("sqlite3_t", r.h)>>),
                  ret |-> Dead, nat |-> d.nat, h |-> r.h, rc |-> r.code,
                  left |-> OpenText(r)] :
                    d \in unique_ptr_dtor("unique_connection", r.nat, r.h)}
           ELSE {[exc |-> NoThrow, ret |-> Wrapper("unique_connection", r.h),
                  nat |-> r.nat, h |-> r.h, rc |-> r.code, left |-> OpenText(r)]} :
           r \in native_open(nat)}

sqlite3_close_release_first(nat, c) ==
    {[exc |-> invoke_with_result_error(r.nat, r.code, <<Arg("sqlite3_t", c.h)>>),
      nat |-> r.nat, rc |-> r.code, w |-> Wrapper(c.kind, nullptr)] :
        r \in native_close(nat, c.h)}

\* sqlite3_close(unique_connection&& c): release() only after a
\* non-failing code.
sqlite3_close(nat, c) ==
    {LET exc == invoke_with_result_error(r.nat, r.code, <<Arg("sqlite3_t", c.h)>>)
     IN [exc |-> exc, nat |-> r.nat, rc |-> r.code,
         w |-> IF exc.thrown THEN c ELSE Wrapper(c.kind, nullptr)] :
        r \in native_close(nat, c.h)}

\* sqlite3_close_v2(unique_connection c): c is the by-value parameter; it
\* keeps the pointer and is destroyed when the call ends.
sqlite3_close_v2(nat, c) ==
    UNION {{[exc |-> invoke_with_result_error(r.nat, r.code, <<Arg("sqlite3_t", c.h)>>),
             nat |-> d.nat] : d \in unique_ptr_dtor(c.kind, r.nat, c.h)} :
           r \in native_close_v2(nat, c.h)}

sqlite3_finalize_release_after(nat, s) ==
    {LET exc == invoke_with_result_error(r.nat, r.code, <<Arg("sqlite3_stmt_t", s.h)>>)
     IN [exc |-> exc, nat |-> r.nat, rc |-> r.code,
         w |-> IF exc.thrown THEN s ELSE Wrapper(s.kind, nullptr)] :
        r \in native_finalize(nat, s.h)}

\* sqlite3_finalize(unique_statement&& s): release() before the call.
sqlite3_finalize(nat, s) ==
    {[exc |-> invoke_with_result_error(r.nat, r.code, <<Arg("sqlite3_stmt_t", s.h)>>),
      nat |-> r.nat, rc |-> r.code, w |-> Wrapper(s.kind, nullptr)] :
        r \in native_finalize(nat, s.h)}

\* sqlite3_backup_finish(unique_backup&& b): release() only after a
\* non-failing code.
sqlite3_backup_finish(nat, b) ==
    {LET exc == invoke_with_result_error(r.nat, r.code, <<Arg("sqlite3_backup_t", b.h)>>)
     IN [exc |-> exc, nat |-> r.nat,
         w |-> IF exc.thrown THEN b ELSE Wrapper(b.kind, nullptr)] :
        r \in native_backup_finish(nat, b.h)}

\* sqlite3_backup_init: a null result raises with the extended error code
\* and the error text of the destination connection.
sqlite3_backup_init(nat, dest) ==
    {IF r.ptr = nullptr
     THEN [exc |-> throw_error(r.nat, r.errcode, <<Arg("sqlite3_t", dest)>>),
           ret |-> Dead, nat |-> r.nat]
     ELSE [exc |-> NoThrow, ret |-> Wrapper("unique_backup", r.ptr), nat |-> r.nat] :
        r \in native_backup_init(nat, dest)}

\* sqlite3_prepare, sqlite3_prepare_v2 (UTF-8 and UTF-16): the statement
\* produced is wrapped after a non-failing code.
sqlite3_prepare(nat, c) ==
    {LET exc == invoke_with_result_error(r.nat, r.code,
                    <<Arg("sqlite3_t", c), Arg("string", 0), Arg("int", 0),
                      Arg("sqlite3_stmt_t*", 0), Arg("string*", 0)>>)
     IN [exc |-> exc, nat |-> r.nat, rc |-> r.code,
         ret |-> IF exc.thrown THEN Dead ELSE Wrapper("unique_statement", r.stmt)] :
        r \in native_prepare(nat, c)}

\* The adaptors of the connection operations that return a result code:
\* sqlite3_db_status, sqlite3_busy_handler, sqlite3_busy_timeout,
\* sqlite3_table_column_metadata.
ConnectionOps ==
    {"sqlite3_db_status", "sqlite3_busy_handler", "sqlite3_busy_timeout",
     "sqlite3_table_column_metadata"}

ConnectionOpFailure(op) ==
    IF op = "sqlite3_table_column_metadata"
    THEN [code |-> EngineCode.error, text |-> "no such table column: t.c"]
    ELSE [code |-> EngineCode.misuse, text |-> "bad parameter or other API misuse"]

connection_adaptor(nat, op, c) ==
    {Done(invoke_with_result_error(r.nat, r.code, <<Arg("sqlite3_t", c), Arg("int", 0)>>),
          r.nat) :
        r \in native_on_connection(nat, c, ConnectionOpFailure(op).code,
                                   ConnectionOpFailure(op).text)}

\* The adaptors with no connection: sqlite3_initialize (no argument),
\* sqlite3_status and sqlite3_status64 (the status key first).
GlobalOps == {"sqlite3_status", "sqlite3_status64"}

global_adaptor(nat, op) ==
    {Done(invoke_with_result_error(r.nat, r.code,
                                   <<Arg("int", 0), Arg("int*", 0), Arg("int*", 0), Arg("bool", 0)>>),
          r.nat) :
        r \in native_global(nat, EngineCode.error)}

sqlite3_initialize_token_on_failure(nat) ==
    {[exc |-> invoke_with_result_error(r.nat, r.code, <<>>), ret |-> Token(FALSE)] :
        r \in native_global(nat, EngineCode.nomem)}

\* sqlite3_initialize: a token is returned after a non-failing code.
sqlite3_initialize(nat) ==
    {LET exc == invoke_with_result_error(r.nat, r.code, <<>>)
     IN [exc |-> exc, ret |-> IF exc.thrown THEN Dead ELSE Token(FALSE)] :
        r \in native_global(nat, EngineCode.nomem)}

\* sqlite3_complete, sqlite3_complete16: 0 and 1 are answers, any other
\* code is raised with the global text.
sqlite3_complete(nat) ==
    {IF c # 0 /\ c # 1 THEN throw_error(nat, c, <<>>) ELSE NoThrow :
        c \in {0, 1, EngineCode.nomem}}

\* ::sqlite3_exec on a live connection: success, a failure with a message
\* string allocated by the engine, or a failure with no message string.
native_exec(nat, db) ==
    {[code |-> SQLITE_OK, hasMsg |-> FALSE, msg |-> "", nat |-> nat],
     [code |-> EngineCode.error, hasMsg |-> TRUE, msg |-> "no such table: t",
      nat |-> [nat EXCEPT ![db].errmsg = "no such table: t"]],
     [code |-> EngineCode.misuse, hasMsg |-> FALSE, msg |-> "", nat |-> nat]}

sqlite3_exec_no_free(nat, c) ==
    {[exc |-> IF result_is_error(r.code) THEN runtime_error(r.code, r.msg) ELSE NoThrow,
      nat |-> r.nat, rc |-> r.code, alloc |-> r.hasMsg, msg |-> r.msg, freed |-> 0,
      ub |-> FALSE,
      events |-> IF result_is_error(r.code) THEN <<"throw">> ELSE <<>>] :
        r \in native_exec(nat, c)}

\* sqlite3_exec: on a failing code the message string is appended to the
\* error text, freed with sqlite3_free, and the error is raised.  Appending
\* a null message string is undefined behaviour: the call ends abnormally
\* or raises with whatever text was read.
sqlite3_exec(nat, c) ==
    UNION {IF ~result_is_error(r.code)
           THEN {[exc |-> NoThrow, nat |-> r.nat, rc |-> r.code, alloc |-> r.hasMsg,
                  msg |-> r.msg, freed |-> 0, ub |-> FALSE, events |-> <<>>]}
           ELSE IF r.hasMsg
           THEN {[exc |-> runtime_error(r.code, r.msg), nat |-> r.nat, rc |-> r.code,
                  alloc |-> TRUE, msg |-> r.msg, freed |-> 1, ub |-> FALSE,
                  events |-> <<"sqlite3_free", "throw">>]}
           ELSE {[exc |-> NoThrow, nat |-> r.nat, rc |-> r.code, alloc |-> FALSE,
                  msg |-> "", freed |-> 0, ub |-> TRUE, events |-> <<>>],
                 [exc |-> runtime_error(r.code, ""), nat |-> r.nat, rc |-> r.code,
                  alloc |-> FALSE, msg |-> "", freed |-> 0, ub |-> TRUE,
                  events |-> <<"sqlite3_free", "throw">>]} :
           r \in native_exec(nat, c)}

(***************************************************************************)
(* The state machine: the client's calls.                                  *)
(***************************************************************************)
\* The status counter before any use, and the absence of a value call.
NoStat == [current |-> 0, highwater |-> 0]
NoCall == [op |-> "none"]

\* The round-trip program before its first call: well is whether the engine
\* has behaved so far, results what the calls returned, raised whether a
\* call raised.
Start == [at |-> "open", well |-> TRUE, results |-> <<>>, raised |-> FALSE]

Last(op, exc, h) == [op |-> op, exc |-> exc, h |-> h, kind |-> "adaptor"]

ObjectOp(op, kind, exc, h, rc) ==
    [op |-> op, exc |-> exc, h |-> h, kind |-> kind, rc |-> rc]

InitObjects ==
    /\ obj = [s \in Slots |-> Dead]
    /\ native = [h \in Handles |-> Unalloc]
    /\ initOK = 0
    /\ shutdowns = 0
    /\ last = Last("none", NoThrow, nullptr)
    /\ stat = NoStat
    /\ ret = NoCall
    /\ pc = Start

Init ==
    /\ InitObjects
    /\ code = SQLITE_OK
    /\ verdict = [classified |-> FALSE]

\* The raw pointer of a connection wrapper that holds a live connection.
LiveConnection(s) ==
    /\ obj[s].kind = "unique_connection"
    /\ obj[s].h # nullptr
    /\ native[obj[s].h].state = "live"

LiveStatement(s) ==
    /\ obj[s].kind = "unique_statement"
    /\ obj[s].h # nullptr
    /\ native[obj[s].h].state = "live"

OpenInto(op, s) ==
    /\ obj[s] = Dead
    /\ \E r \in open_connection(native) :
        /\ obj' = [obj EXCEPT ![s] = r.ret]
        /\ native' = r.nat
        /\ last' = [op |-> op, exc |-> r.exc, h |-> r.h, kind |-> "adaptor",
                    left |-> r.left]
    /\ UNCHANGED <<initOK, shutdowns, code, verdict, stat, ret, pc>>

Op_sqlite3_open(s) == OpenInto("sqlite3_open", s)

OpenOps == {"sqlite3_open", "sqlite3_open16", "sqlite3_open_v2"}

Op_sqlite3_open16(s) == OpenInto("sqlite3_open16", s)

Op_sqlite3_open_v2(s) == OpenInto("sqlite3_open_v2", s)

Op_sqlite3_close(s) ==
    /\ obj[s].kind = "unique_connection"
    /\ \E r \in sqlite3_close(native, obj[s]) :
        /\ obj' = [obj EXCEPT ![s] = r.w]
        /\ native' = r.nat
        /\ last' = ObjectOp("sqlite3_close", "adaptor", r.exc, obj[s].h, r.rc)
    /\ UNCHANGED <<initOK, shutdowns, code, verdict, stat, ret, pc>>

\* The caller's wrapper is moved into the parameter.
Op_sqlite3_close_v2(s) ==
    /\ obj[s].kind = "unique_connection"
    /\ \E r \in sqlite3_close_v2(native, obj[s]) :
        /\ obj' = [obj EXCEPT ![s] = Wrapper(obj[s].kind, nullptr)]
        /\ native' = r.nat
        /\ last' = Last("sqlite3_close_v2", r.exc, obj[s].h)
    /\ UNCHANGED <<initOK, shutdowns, code, verdict, stat, ret, pc>>

PrepareOps ==
    {"sqlite3_prepare", "sqlite3_prepare_v2", "sqlite3_prepare16", "sqlite3_prepare16_v2"}

Op_sqlite3_prepare(op, c, s) ==
    /\ LiveConnection(c)
    /\ obj[s] = Dead
    /\ \E r \in sqlite3_prepare(native, obj[c].h) :
        /\ obj' = [obj EXCEPT ![s] = r.ret]
        /\ native' = r.nat
        /\ last' = Last(op, r.exc, obj[c].h)
    /\ UNCHANGED <<initOK, shutdowns, code, verdict, stat, ret, pc>>

Op_sqlite3_finalize(s) ==
    /\ obj[s].kind = "unique_statement"
    /\ \E r \in sqlite3_finalize(native, obj[s]) :
        /\ obj' = [obj EXCEPT ![s] = r.w]
        /\ native' = r.nat
        /\ last' = ObjectOp("sqlite3_finalize", "adaptor", r.exc, obj[s].h, r.rc)
    /\ UNCHANGED <<initOK, shutdowns, code, verdict, stat, ret, pc>>

Op_sqlite3_backup_init(c, s) ==
    /\ LiveConnection(c)
    /\ obj[s] = Dead
    /\ \E r \in sqlite3_backup_init(native, obj[c].h) :
        /\ obj' = [obj EXCEPT ![s] = r.ret]
        /\ native' = r.nat
        /\ last' = Last("sqlite3_backup_init", r.exc, obj[c].h)
    /\ UNCHANGED <<initOK, shutdowns, code, verdict, stat, ret, pc>>

Op_sqlite3_backup_finish(s) ==
    /\ obj[s].kind = "unique_backup"
    /\ \E r \in sqlite3_backup_finish(native, obj[s]) :
        /\ obj' = [obj EXCEPT ![s] = r.w]
        /\ native' = r.nat
        /\ last' = Last("sqlite3_backup_finish", r.exc, obj[s].h)
    /\ UNCHANGED <<initOK, shutdowns, code, verdict, stat, ret, pc>>

Op_connection(op, c) ==
    /\ LiveConnection(c)
    /\ \E r \in connection_adaptor(native, op, obj[c].h) :
        /\ native' = r.nat
        /\ last' = Last(op, r.exc, obj[c].h)
    /\ UNCHANGED <<obj, initOK, shutdowns, code, verdict, stat, ret, pc>>

Op_global(op) ==
    /\ \E r \in global_adaptor(native, op) :
        /\ native' = r.nat
        /\ last' = Last(op, r.exc, nullptr)
    /\ UNCHANGED <<obj, initOK, shutdowns, code, verdict, stat, ret, pc>>

Op_sqlite3_complete ==
    /\ \E exc \in sqlite3_complete(native) :
        last' = Last("sqlite3_complete", exc, nullptr)
    /\ UNCHANGED <<obj, native, initOK, shutdowns, code, verdict, stat, ret, pc>>

Op_sqlite3_exec(c) ==
    /\ LiveConnection(c)
    /\ \E r \in sqlite3_exec(native, obj[c].h) :
        /\ native' = r.nat
        /\ last' = [op |-> "sqlite3_exec", exc |-> r.exc, h |-> obj[c].h,
                    kind |-> "adaptor", rc |-> r.rc, alloc |-> r.alloc, msg |-> r.msg,
                    freed |-> r.freed, ub |-> r.ub, events |-> r.events]
    /\ UNCHANGED <<obj, initOK, shutdowns, code, verdict, stat, ret, pc>>

\* unique_connection{}, unique_statement{}, unique_backup{}: a wrapper
\* around the null pointer.
ConstructNull(k, s) ==
    /\ obj[s] = Dead
    /\ obj' = [obj EXCEPT ![s] = Wrapper(k, nullptr)]
    /\ last' = ObjectOp("construct", k, NoThrow, nullptr, SQLITE_OK)
    /\ UNCHANGED <<native, initOK, shutdowns, code, verdict, stat, ret, pc>>

\* A new wrapper is move-constructed in slot dst from the wrapper in src.
MoveConstruct(src, dst) ==
    /\ obj[dst] = Dead
    /\ IsWrapper(obj[src])
    /\ obj' = [obj EXCEPT ![dst] = obj[src],
                          ![src] = Wrapper(obj[src].kind, nullptr)]
    /\ last' = ObjectOp("move_construct", obj[src].kind, NoThrow, obj[src].h, SQLITE_OK)
    /\ UNCHANGED <<native, initOK, shutdowns, code, verdict, stat, ret, pc>>

\* The wrapper in dst is move-assigned from the wrapper in src (src = dst:
\* self-assignment).  unique_ptr: reset(u.release()).
MoveAssign(src, dst) ==
    /\ IsWrapper(obj[src])
    /\ obj[src].kind = obj[dst].kind
    /\ IF src = dst
       THEN /\ obj' = obj
            /\ native' = native
            /\ last' = ObjectOp("move_assign", obj[src].kind, NoThrow, obj[src].h, SQLITE_OK)
       ELSE \E d \in unique_ptr_dtor(obj[dst].kind, native, obj[dst].h) :
            /\ obj' = [obj EXCEPT ![dst] = obj[src],
                                  ![src] = Wrapper(obj[src].kind, nullptr)]
            /\ native' = d.nat
            /\ last' = ObjectOp("move_assign", obj[src].kind, d.exc, obj[dst].h, d.rc)
    /\ UNCHANGED <<initOK, shutdowns, code, verdict, stat, ret, pc>>

\* The wrapper in slot s goes out of scope.
Destroy(s) ==
    /\ IsWrapper(obj[s])
    /\ \E d \in unique_ptr_dtor(obj[s].kind, native, obj[s].h) :
        /\ native' = d.nat
        /\ last' = ObjectOp("destroy", obj[s].kind, d.exc, obj[s].h, d.rc)
    /\ obj' = [obj EXCEPT ![s] = Dead]
    /\ UNCHANGED <<initOK, shutdowns, code, verdict, stat, ret, pc>>

Op_sqlite3_initialize(s) ==
    /\ obj[s] = Dead
    /\ initOK < MaxInit
    /\ \E r \in sqlite3_initialize(native) :
        /\ obj' = [obj EXCEPT ![s] = r.ret]
        /\ initOK' = IF r.exc.thrown THEN initOK ELSE initOK + 1
        /\ last' = Last("sqlite3_initialize", r.exc, nullptr)
    /\ UNCHANGED <<native, shutdowns, code, verdict, stat, ret, pc>>

\* was: the token the operation was given; calls: the ::sqlite3_shutdown
\* calls it made; rc: the code the last of them returned.
TokenOp(op, exc, was, src, dst, calls, rc) ==
    [op |-> op, exc |-> exc, h |-> nullptr, kind |-> "initialize_t",
     was |-> was, src |-> src, dst |-> dst, calls |-> calls, rc |-> rc]

\* A new token is move-constructed in slot dst from the token in src.
MoveConstructToken(src, dst) ==
    /\ obj[dst] = Dead
    /\ IsToken(obj[src])
    /\ shutdowns < MaxShutdowns
    /\ LET m == initialize_t_move(obj[src]) IN
       obj' = [obj EXCEPT ![dst] = m.self, ![src] = m.x]
    /\ last' = TokenOp("move_construct", NoThrow, obj[src], src, dst, 0, SQLITE_OK)
    /\ UNCHANGED <<native, initOK, shutdowns, code, verdict, stat, ret, pc>>

\* The token in dst is move-assigned from the token in src (src = dst:
\* self-assignment).
MoveAssignToken(src, dst) ==
    /\ IsToken(obj[src])
    /\ IsToken(obj[dst])
    /\ LET m == initialize_t_assign(obj[dst], obj[src], src = dst) IN
       obj' = [obj EXCEPT ![src] = m.x, ![dst] = IF src = dst THEN m.x ELSE m.self]
    /\ last' = TokenOp(IF src = dst THEN "self_assign" ELSE "move_assign",
                       NoThrow, obj[src], src, dst, 0, SQLITE_OK)
    /\ UNCHANGED <<native, initOK, shutdowns, code, verdict, stat, ret, pc>>

\* The token in slot s goes out of scope.
DestroyToken(s) ==
    /\ IsToken(obj[s])
    /\ \E d \in initialize_t_dtor(obj[s], native) :
        /\ shutdowns' = shutdowns + d.calls
        /\ last' = TokenOp("destroy", d.exc, obj[s], s, s, d.calls, d.rc)
    /\ obj' = [obj EXCEPT ![s] = Dead]
    /\ UNCHANGED <<native, initOK, code, verdict, stat, ret, pc>>

\* sqlite3_shutdown(detail::initialize_t init): the parameter is
\* move-constructed from the caller's token and destroyed when the call
\* ends; the body is empty.
Op_sqlite3_shutdown(s) ==
    /\ IsToken(obj[s])
    /\ shutdowns < MaxShutdowns
    /\ LET m == initialize_t_move(obj[s]) IN
       /\ obj' = [obj EXCEPT ![s] = m.x]
       /\ \E d \in initialize_t_dtor(m.self, native) :
           /\ shutdowns' = shutdowns + d.calls
           /\ last' = TokenOp("sqlite3_shutdown", d.exc, obj[s], s, s, d.calls, d.rc)
    /\ UNCHANGED <<native, initOK, code, verdict, stat, ret, pc>>

\* The lifetime of the three handle wrappers.
Next ==
    \/ \E s \in Slots : Op_sqlite3_open(s)
    \/ \E s \in Slots : Op_sqlite3_open16(s)
    \/ \E s \in Slots : Op_sqlite3_open_v2(s)
    \/ \E s \in Slots : Op_sqlite3_close(s)
    \/ \E s \in Slots : Op_sqlite3_close_v2(s)
    \/ \E op \in PrepareOps, c, s \in Slots : Op_sqlite3_prepare(op, c, s)
    \/ \E s \in Slots : Op_sqlite3_finalize(s)
    \/ \E c, s \in Slots : Op_sqlite3_backup_init(c, s)
    \/ \E s \in Slots : Op_sqlite3_backup_finish(s)
    \/ \E k \in WrapperKinds, s \in Slots : ConstructNull(k, s)
    \/ \E src, dst \in Slots : MoveConstruct(src, dst)
    \/ \E src, dst \in Slots : MoveAssign(src, dst)
    \/ \E s \in Slots : Destroy(s)

Spec == Init /\ [][Next]_vars

\* The lifetime of the initialization token.
NextToken ==
    \/ \E s \in Slots : Op_sqlite3_initialize(s)
    \/ \E s \in Slots : Op_sqlite3_shutdown(s)
    \/ \E src, dst \in Slots : MoveConstructToken(src, dst)
    \/ \E src, dst \in Slots : MoveAssignToken(src, dst)
    \/ \E s \in Slots : DestroyToken(s)

SpecToken == Init /\ [][NextToken]_vars

\* Tokens are initialized, moved, assigned and destroyed.
NextTokenMoves ==
    \/ \E s \in Slots : Op_sqlite3_initialize(s)
    \/ \E src, dst \in Slots : MoveConstructToken(src, dst)
    \/ \E src, dst \in Slots : MoveAssignToken(src, dst)
    \/ \E s \in Slots : DestroyToken(s)

SpecTokenMoves == Init /\ [][NextTokenMoves]_vars

\* Objects are created and go out of scope: automatic cleanup only.
NextCleanup ==
    \/ \E s \in Slots : Op_sqlite3_open(s)
    \/ \E op \in PrepareOps, c, s \in Slots : Op_sqlite3_prepare(op, c, s)
    \/ \E c, s \in Slots : Op_sqlite3_backup_init(c, s)
    \/ \E s \in Slots : Op_sqlite3_initialize(s)
    \/ \E s \in Slots : Destroy(s)
    \/ \E s \in Slots : DestroyToken(s)

SpecCleanup == Init /\ [][NextCleanup]_vars

\* The adaptors that raise: which text the error carries.
NextCalls ==
    \/ \E s \in Slots : Op_sqlite3_open(s)
    \/ \E s \in Slots : Op_sqlite3_close(s)
    \/ \E s \in Slots : Op_sqlite3_close_v2(s)
    \/ \E op \in PrepareOps, c, s \in Slots : Op_sqlite3_prepare(op, c, s)
    \/ \E c, s \in Slots : Op_sqlite3_backup_init(c, s)
    \/ \E op \in ConnectionOps, c \in Slots : Op_connection(op, c)
    \/ \E op \in GlobalOps : Op_global(op)
    \/ Op_sqlite3_complete
    \/ \E s \in Slots : Op_sqlite3_initialize(s)
    \/ \E s \in Slots : Destroy(s)

SpecCalls == Init /\ [][NextCalls]_vars

\* sqlite3_exec on the connections the client holds.
NextExec ==
    \/ \E s \in Slots : Op_sqlite3_open(s)
    \/ \E op \in ConnectionOps, c \in Slots : Op_connection(op, c)
    \/ \E c \in Slots : Op_sqlite3_exec(c)
    \/ \E s \in Slots : Op_sqlite3_close(s)
    \/ \E s \in Slots : Destroy(s)

SpecExec == Init /\ [][NextExec]_vars

(***************************************************************************)
(* Classification on its own: every code of the range is classified.      *)
(***************************************************************************)
InitClassify ==
    /\ InitObjects
    /\ code \in (0 - MaxCode)..MaxCode
    /\ verdict = [classified |-> FALSE]

Classify ==
    /\ ~verdict.classified
    /\ verdict' = [classified |-> TRUE, is_error |-> result_is_error(code),
                   raised |-> invoke_with_result_error(native, code, <<>>).thrown]
    /\ UNCHANGED <<obj, native, initOK, shutdowns, last, code, stat, ret, pc>>

NextClassify == Classify

SpecClassify == InitClassify /\ [][NextClassify]_vars

(***************************************************************************)
(* Adaptors that return values.  A value call ends in one of three ways:   *)
(* it returns a value, it raises, or (undefined behaviour) the program     *)
(* does not continue.                                                      *)
(***************************************************************************)
Returned(v) == [exc |-> NoThrow, returned |-> TRUE, value |-> v]
Raised(e) == [exc |-> e, returned |-> FALSE]
Abnormal == [exc |-> NoThrow, returned |-> FALSE]

\* What std::basic_string(const CharT*) raises on a null pointer where the
\* library checks it.
logic_error == [thrown |-> TRUE, type |-> "std::logic_error"]

\* Texts of the engine: up to MaxText non-zero code units.
Units == {1, 2}
Texts == UNION {[1..n -> Units] : n \in 0..MaxText}

\* A character pointer handed out by the engine: null, or the address of a
\* zero-terminated buffer.
NullChars == [null |-> TRUE]
CharPtr(t) == [null |-> FALSE, buf |-> Append(t, 0)]
CharPtrs == {NullChars} \cup {CharPtr(t) : t \in Texts}

\* std::char_traits<CharT>::length: the code units before the terminator.
length(buf) == CHOOSE n \in 0..(Len(buf) - 1) :
                   /\ buf[n + 1] = 0
                   /\ \A i \in 1..n : buf[i] # 0

\* std::basic_string(): the empty string.
empty_string == <<>>

\* std::basic_string(const CharT* p): copies the code units before the
\* terminator; undefined behaviour for a null p (the library raises
\* std::logic_error or reads through the null pointer).
basic_string(p) ==
    IF p.null THEN {Raised(logic_error), Abnormal}
    ELSE {Returned(SubSeq(p.buf, 1, length(p.buf)))}

\* The accessors that return the engine's text as a string.
StringAccessors ==
    {"sqlite3_bind_parameter_name", "sqlite3_column_name", "sqlite3_column_name16",
     "sqlite3_column_database_name", "sqlite3_column_database_name16",
     "sqlite3_column_origin_name", "sqlite3_column_origin_name16",
     "sqlite3_column_table_name", "sqlite3_column_table_name16",
     "sqlite3_column_text", "sqlite3_column_text16"}

string_accessor_unchecked(op, str) == basic_string(str)

\* Every string accessor: invoke_with_result of the native accessor, an
\* empty string for a null result, the string built from the pointer
\* otherwise.
string_accessor(op, str) ==
    IF str = NullChars THEN {Returned(empty_string)} ELSE basic_string(str)

\* A value call: the adaptor, what the engine produced, how the call ended.
\* The accessors are checked one call at a time, from the state in which no
\* value call has been made.
ValueCall(op, in, nativeOut, out) ==
    [op |-> op, in |-> in, native |-> nativeOut, out |-> out]

Op_string_accessor(op) ==
    /\ ret = NoCall
    /\ \E str \in CharPtrs : \E r \in string_accessor(op, str) :
           ret' = ValueCall(op, <<>>, str, r)
    /\ UNCHANGED <<obj, native, initOK, shutdowns, last, code, verdict, stat, pc>>

\* ::sqlite3_table_column_metadata on a live connection: on success the two
\* name pointers (either may be left null) and the three integer outputs;
\* on failure the outputs are left as the caller initialized them.
IntOutputs == {0, 1, 2}

native_table_column_metadata(nat, db) ==
    {[code |-> SQLITE_OK, type |-> t, colSeq |-> q, notNull |-> n,
      primaryKey |-> k, autoInc |-> a, nat |-> nat] :
        t \in CharPtrs, q \in CharPtrs, n \in IntOutputs, k \in IntOutputs,
        a \in IntOutputs}
    \cup
    {[code |-> EngineCode.error, type |-> NullChars, colSeq |-> NullChars,
      notNull |-> 0, primaryKey |-> 0, autoInc |-> 0,
      nat |-> [nat EXCEPT ![db].errmsg = "no such table column: t.c"]]}

\* std::make_tuple(utf8_string_out_t{type}, utf8_string_out_t{colSeq},
\* notNull != 0, primaryKey != 0, autoInc != 0).
metadata_tuple_flag_is_one(r) ==
    {Returned(<<t.value, q.value, r.notNull = 1, r.primaryKey = 1, r.autoInc = 1>>) :
        t \in {x \in basic_string(r.type) : x.returned},
        q \in {x \in basic_string(r.colSeq) : x.returned}}
    \cup
    {o \in basic_string(r.type) \cup basic_string(r.colSeq) : ~o.returned}

metadata_tuple(r) ==
    {Returned(<<t.value, q.value, r.notNull # 0, r.primaryKey # 0, r.autoInc # 0>>) :
        t \in {x \in basic_string(r.type) : x.returned},
        q \in {x \in basic_string(r.colSeq) : x.returned}}
    \cup
    {o \in basic_string(r.type) \cup basic_string(r.colSeq) : ~o.returned}

\* sqlite3_table_column_metadata: the outcomes with the engine state left.
sqlite3_table_column_metadata(nat, c) ==
    UNION {IF result_is_error(r.code)
           THEN {[out |-> Raised(throw_error(r.nat, r.code, <<Arg("sqlite3_t", c)>>)),
                  native |-> r]}
           ELSE {[out |-> o, native |-> r] : o \in metadata_tuple(r)} :
           r \in native_table_column_metadata(nat, c)}

\* What the engine wrote, without the engine state.
MetadataOut(r) ==
    [code |-> r.code, type |-> r.type, colSeq |-> r.colSeq, notNull |-> r.notNull,
     primaryKey |-> r.primaryKey, autoInc |-> r.autoInc]

Op_sqlite3_table_column_metadata(c) ==
    /\ ret = NoCall
    /\ native[c].kind = "sqlite3" /\ native[c].state = "live"
    /\ \E r \in sqlite3_table_column_metadata(native, c) :
           /\ ret' = ValueCall("sqlite3_table_column_metadata", <<c>>,
                               MetadataOut(r.native), r.out)
           /\ native' = r.native.nat
    /\ UNCHANGED <<obj, initOK, shutdowns, last, code, verdict, stat, pc>>

\* ::sqlite3_status, ::sqlite3_status64, ::sqlite3_db_status: write the
\* current value and the high-water mark, then reset the high-water mark
\* to the current value when the reset flag is set.  On failure the outputs
\* are left as the caller initialized them (0).
native_status(st, resetFlag) ==
    {[code |-> SQLITE_OK, current |-> st.current, highwater |-> st.highwater,
      stat |-> IF resetFlag THEN [st EXCEPT !.highwater = st.current] ELSE st],
     [code |-> EngineCode.error, current |-> 0, highwater |-> 0, stat |-> st]}

StatusOut(r) == [code |-> r.code, current |-> r.current, highwater |-> r.highwater]

sqlite3_status_after_reset(nat, st, r) ==
    {[out |-> IF result_is_error(o.code)
              THEN Raised(throw_error(nat, o.code,
                                      <<Arg("int", 0), Arg("int*", 0), Arg("int*", 0),
                                        Arg("bool", r)>>))
              ELSE Returned(<<o.current, o.stat.highwater>>),
      native |-> o] : o \in native_status(st, r)}

\* sqlite3_status: std::make_tuple(current, highwater) after a non-failing
\* code.
sqlite3_status(nat, st, r) ==
    {[out |-> IF result_is_error(o.code)
              THEN Raised(throw_error(nat, o.code,
                                      <<Arg("int", 0), Arg("int*", 0), Arg("int*", 0),
                                        Arg("bool", r)>>))
              ELSE Returned(<<o.current, o.highwater>>),
      native |-> o] : o \in native_status(st, r)}

\* sqlite3_status64: the same with 64-bit outputs.
sqlite3_status64(nat, st, r) ==
    {[out |-> IF result_is_error(o.code)
              THEN Raised(throw_error(nat, o.code,
                                      <<Arg("int", 0), Arg("sqlite3_int64*", 0),
                                        Arg("sqlite3_int64*", 0), Arg("bool", r)>>))
              ELSE Returned(<<o.current, o.highwater>>),
      native |-> o] : o \in native_status(st, r)}

\* sqlite3_db_status: the connection first, the reset flag cast to int.
sqlite3_db_status(nat, st, c, r) ==
    {[out |-> IF result_is_error(o.code)
              THEN Raised(throw_error(nat, o.code,
                                      <<Arg("sqlite3_t", c), Arg("int", 0), Arg("int*", 0),
                                        Arg("int*", 0), Arg("int", r)>>))
              ELSE Returned(<<o.current, o.highwater>>),
      native |-> o] : o \in native_status(st, r)}

StatusOps == {"sqlite3_status", "sqlite3_status64", "sqlite3_db_status"}

\* The engine's counter moves as the program works; the high-water mark
\* follows it upwards.
EngineWork ==
    /\ \E v \in 0..MaxStat :
           /\ v # stat.current
           /\ stat' = [current |-> v,
                       highwater |-> IF v > stat.highwater THEN v ELSE stat.highwater]
    /\ UNCHANGED <<obj, native, initOK, shutdowns, last, code, verdict, ret, pc>>

StatusCall(op, r, o) ==
    /\ ret' = ValueCall(op, [reset |-> r, stat |-> stat], StatusOut(o.native), o.out)
    /\ stat' = o.native.stat
    /\ UNCHANGED <<obj, native, initOK, shutdowns, last, code, verdict, pc>>

Op_sqlite3_status ==
    \E r \in BOOLEAN : \E o \in sqlite3_status(native, stat, r) :
        StatusCall("sqlite3_status", r, o)

Op_sqlite3_status64 ==
    \E r \in BOOLEAN : \E o \in sqlite3_status64(native, stat, r) :
        StatusCall("sqlite3_status64", r, o)

Op_sqlite3_db_status(c) ==
    /\ native[c].kind = "sqlite3" /\ native[c].state = "live"
    /\ \E r \in BOOLEAN : \E o \in sqlite3_db_status(native, stat, c, r) :
           StatusCall("sqlite3_db_status", r, o)

\* ::sqlite3_backup_step on a live backup: pages copied with more to come,
\* no more pages, or a failure (the retryable busy and locked among them).
PageCounts == {0 - 1, 1, 2}

native_backup_step(b, n) ==
    {[code |-> c, n |-> n] :
        c \in {SQLITE_OK, SQLITE_DONE, EngineCode.busy, EngineCode.locked,
               EngineCode.error, EngineCode.nomem}}

sqlite3_backup_step_retryable(nat, b, n) ==
    {[out |-> IF result_is_error(r.code) /\ r.code \notin {EngineCode.busy, EngineCode.locked}
              THEN Raised(throw_error(nat, r.code,
                                      <<Arg("sqlite3_backup_t", b), Arg("int", n)>>))
              ELSE Returned(r.code),
      native |-> r] : r \in native_backup_step(b, n)}

\* sqlite3_backup_step: the code of a non-failing step, cast to
\* step_result_t.
sqlite3_backup_step(nat, b, n) ==
    {[out |-> IF result_is_error(r.code)
              THEN Raised(throw_error(nat, r.code,
                                      <<Arg("sqlite3_backup_t", b), Arg("int", n)>>))
              ELSE Returned(r.code),
      native |-> r] : r \in native_backup_step(b, n)}

Op_sqlite3_backup_step(b) ==
    /\ ret = NoCall
    /\ native[b].kind = "sqlite3_backup" /\ native[b].state = "live"
    /\ \E n \in PageCounts : \E r \in sqlite3_backup_step(native, b, n) :
           ret' = ValueCall("sqlite3_backup_step", [b |-> b, n |-> n], r.native, r.out)
    /\ UNCHANGED <<obj, native, initOK, shutdowns, last, code, verdict, stat, pc>>

\* Integers wider than the checker's: a value is its 16-bit words, the most
\* significant first; a 64-bit value has four, a 32-bit value two.
Word == 2^16

SignWord == 2^15

\* The words the stored values are drawn from.
Words == {0, 1, SignWord - 1, SignWord, Word - 1}

Int64s == [1..4 -> Words]

\* ::sqlite3_column_int64: the stored value.
native_column_int64(v) == v

\* ::sqlite3_column_int: the low 32 bits of the stored value.
native_column_int(v) == <<v[3], v[4]>>

\* The conversion of int to sqlite3_int64_t: sign extension.
int_to_int64(i) ==
    LET ext == IF i[1] >= SignWord THEN Word - 1 ELSE 0
    IN <<ext, ext, i[1], i[2]>>

\* The value of an int given by its two words.
int_value(i) == (i[1] - (IF i[1] >= SignWord THEN Word ELSE 0)) * Word + i[2]

\* sqlite3_column_int: invoke_with_result(::sqlite3_column_int, s, i).
sqlite3_column_int(v) == Returned(native_column_int(v))

\* sqlite3_column_int64: invoke_with_result(::sqlite3_column_int, s, i),
\* returned as sqlite3_int64_t.
sqlite3_column_int64(v) == Returned(int_to_int64(native_column_int(v)))

Op_sqlite3_column_int64(st) ==
    /\ ret = NoCall
    /\ native[st].kind = "sqlite3_stmt" /\ native[st].state = "live"
    /\ \E v \in Int64s :
           ret' = ValueCall("sqlite3_column_int64", [s |-> st], v, sqlite3_column_int64(v))
    /\ UNCHANGED <<obj, native, initOK, shutdowns, last, code, verdict, stat, pc>>

\* The lengths of a text, as size_t values of four words; a text fills less
\* than the address space.
Sizes == {v \in Int64s : v[1] = 0}

\* size_t multiplication by a small factor: the product modulo 2^64.
size_mul(v, k) ==
    LET p4 == v[4] * k
        p3 == v[3] * k + p4 \div Word
        p2 == v[2] * k + p3 \div Word
        p1 == v[1] * k + p2 \div Word
    IN <<p1 % Word, p2 % Word, p3 % Word, p4 % Word>>

\* The conversion of a size_t argument to the parameter type of the native
\* function: int keeps the low 32 bits, sqlite3_uint64 all 64.
size_to_parameter(type, v) == IF type = "int" THEN <<v[3], v[4]>> ELSE v

\* The three overloads of sqlite3_bind_text: the native function each
\* calls, the type of its byte counter and the size of a code unit.
BindTextOverloads ==
    {[str |-> "utf8_string_in_t", encoding |-> FALSE, fn |-> "::sqlite3_bind_text",
      counter |-> "int", char_type |-> 1],
     [str |-> "utf8_string_in_t", encoding |-> TRUE, fn |-> "::sqlite3_bind_text64",
      counter |-> "sqlite3_uint64", char_type |-> 1],
     [str |-> "utf16_string_in_t", encoding |-> FALSE, fn |-> "::sqlite3_bind_text16",
      counter |-> "int", char_type |-> 2]}

\* sqlite3_bind_text: the arguments the native function receives for a
\* text of the given length, and how the call ends.
sqlite3_bind_text(nat, st, o, len) ==
    {[passed |-> [fn |-> o.fn, counter |-> o.counter,
                  n |-> size_to_parameter(o.counter, size_mul(len, o.char_type)),
                  destructor |-> "sqlite_transient"],
      out |-> IF result_is_error(r.code)
              THEN Raised(throw_error(r.nat, r.code, <<Arg("sqlite3_stmt_t", st)>>))
              ELSE Returned(<<>>)] :
        r \in native_on_statement(nat, st, EngineCode.nomem, "out of memory")}

Op_sqlite3_bind_text(st) ==
    /\ ret = NoCall
    /\ native[st].kind = "sqlite3_stmt" /\ native[st].state = "live"
    /\ \E o \in BindTextOverloads : \E len \in Sizes :
       \E r \in sqlite3_bind_text(native, st, o, len) :
           ret' = ValueCall("sqlite3_bind_text", [overload |-> o, length |-> len],
                            r.passed, r.out)
    /\ UNCHANGED <<obj, native, initOK, shutdowns, last, code, verdict, stat, pc>>

\* The scan-status keys (sqlite_scanstat_*), and a key value that is none
\* of them.
ScanStatusKeys ==
    {"sqlite_scanstat_nloop", "sqlite_scanstat_nvisit", "sqlite_scanstat_est",
     "sqlite_scanstat_name", "sqlite_scanstat_explain", "sqlite_scanstat_selectid"}

AnyScanStatus == ScanStatusKeys \cup {"other"}

\* The member types of a specialization; the primary template has none.
Types(result, param) == [defined |-> TRUE, result_type |-> result, param_type |-> param]
NoTypes == [defined |-> FALSE]

scan_status_result_t_wide_selectid(Status) ==
    CASE Status \in {"sqlite_scanstat_nloop", "sqlite_scanstat_nvisit",
                     "sqlite_scanstat_selectid"} ->
             Types("sqlite3_int64_t", "sqlite3_int64_t")
      [] Status = "sqlite_scanstat_est" -> Types("double", "double")
      [] Status \in {"sqlite_scanstat_name", "sqlite_scanstat_explain"} ->
             Types("utf8_string_out_t", "utf8_string_in_t")
      [] OTHER -> NoTypes

\* detail::scan_status_result_t<Status>.
scan_status_result_t(Status) ==
    CASE Status \in {"sqlite_scanstat_nloop", "sqlite_scanstat_nvisit"} ->
             Types("sqlite3_int64_t", "sqlite3_int64_t")
      [] Status = "sqlite_scanstat_est" -> Types("double", "double")
      [] Status \in {"sqlite_scanstat_name", "sqlite_scanstat_explain"} ->
             Types("utf8_string_out_t", "utf8_string_in_t")
      [] Status = "sqlite_scanstat_selectid" -> Types("int", "int")
      [] OTHER -> NoTypes

\* The type behind an alias of the wrapper.
aliased(t) ==
    CASE t = "sqlite3_int64_t" -> "sqlite3_int64"
      [] t = "utf8_string_in_t" -> "const char*"
      [] t = "utf8_string_out_t" -> "std::string"
      [] OTHER -> t

\* What ::sqlite3_stmt_scanstatus writes through its void* output for a
\* key: sqlite3_int64 for the loop and visit counts, double for the
\* estimate, const char* for the name and the explain text (null when the
\* loop has none), int for the select id.
native_scanstatus_type(Status) ==
    CASE Status \in {"sqlite_scanstat_nloop", "sqlite_scanstat_nvisit"} -> "sqlite3_int64"
      [] Status = "sqlite_scanstat_est" -> "double"
      [] Status \in {"sqlite_scanstat_name", "sqlite_scanstat_explain"} -> "const char*"
      [] Status = "sqlite_scanstat_selectid" -> "int"

Stored(t, v) == [type |-> t, val |-> v]

ScanValues(t) ==
    CASE t = "sqlite3_int64" -> [1..4 -> {0, Word - 1}]
      [] t = "double" -> {"0.0", "12.5"}
      [] t = "const char*" -> CharPtrs
      [] t = "int" -> [1..2 -> {0, Word - 1}]

native_stmt_scanstatus(Status) ==
    {[code |-> SQLITE_OK, written |-> TRUE,
      stored |-> Stored(native_scanstatus_type(Status), v)] :
        v \in ScanValues(native_scanstatus_type(Status))}
    \cup
    {[code |-> EngineCode.error, written |-> FALSE,
      stored |-> Stored(native_scanstatus_type(Status), "unwritten")]}

\* result_t(val): a string is built from a character pointer; equal types
\* copy the value.
scanstatus_result(result_t, param_t, val) ==
    IF aliased(result_t) = "std::string" /\ aliased(param_t) = "const char*"
    THEN basic_string(val)
    ELSE {Returned(val)}

\* detail::get_scanstatus through sqlite3_stmt_scanstatus<Status>: param_t
\* val; get_scanstatus(statement, index, Status, &val); return
\* result_t(val).  The engine writing a value of another type than that of
\* val is undefined behaviour.
sqlite3_stmt_scanstatus(nat, st, i, Status) ==
    LET result_t == scan_status_result_t(Status).result_type
        param_t == scan_status_result_t(Status).param_type
    IN UNION {IF result_is_error(r.code)
              THEN {[out |-> Raised(throw_error(nat, r.code,
                                                <<Arg("sqlite3_stmt_t", st), Arg("int", i),
                                                  Arg("int", 0), Arg("void*", 0)>>)),
                     storage |-> aliased(param_t), native |-> r]}
              ELSE IF r.stored.type # aliased(param_t)
              THEN {[out |-> o, storage |-> aliased(param_t), native |-> r] :
                        o \in {Abnormal, Returned("indeterminate")}}
              ELSE {[out |-> o, storage |-> aliased(param_t), native |-> r] :
                        o \in scanstatus_result(result_t, param_t, r.stored.val)} :
              r \in native_stmt_scanstatus(Status)}

Op_sqlite3_stmt_scanstatus(st) ==
    /\ ret = NoCall
    /\ native[st].kind = "sqlite3_stmt" /\ native[st].state = "live"
    /\ \E Status \in {k \in AnyScanStatus : scan_status_result_t(k).defined} :
       \E r \in sqlite3_stmt_scanstatus(native, st, 0, Status) :
           ret' = ValueCall("sqlite3_stmt_scanstatus",
                            [key |-> Status, storage |-> r.storage], r.native, r.out)
    /\ UNCHANGED <<obj, native, initOK, shutdowns, last, code, verdict, stat, pc>>

\* Value calls are made on an open connection with a prepared statement,
\* or on an open connection with a backup in progress.
InitValues ==
    /\ \E k \in {"statement", "backup"} :
           /\ obj = [s \in Slots |->
                       IF s = 1 THEN Wrapper("unique_connection", 1)
                       ELSE IF s = 2
                       THEN Wrapper(IF k = "statement" THEN "unique_statement"
                                    ELSE "unique_backup", 2)
                       ELSE Dead]
           /\ native = [h \in Handles |->
                          IF h = 1 THEN Live("sqlite3", nullptr)
                          ELSE IF h = 2
                          THEN Live(IF k = "statement" THEN "sqlite3_stmt"
                                    ELSE "sqlite3_backup", 1)
                          ELSE Unalloc]
    /\ initOK = 0
    /\ shutdowns = 0
    /\ last = Last("none", NoThrow, nullptr)
    /\ code = SQLITE_OK
    /\ verdict = [classified |-> FALSE]
    /\ stat = NoStat
    /\ ret = NoCall
    /\ pc = Start

NextValues ==
    \/ \E st \in Handles : Op_sqlite3_bind_text(st)
    \/ \E op \in StringAccessors : Op_string_accessor(op)
    \/ \E c \in Handles : Op_sqlite3_table_column_metadata(c)
    \/ \E b \in Handles : Op_sqlite3_backup_step(b)
    \/ \E st \in Handles : Op_sqlite3_column_int64(st)
    \/ \E st \in Handles : Op_sqlite3_stmt_scanstatus(st)

SpecValues == InitValues /\ [][NextValues]_vars

NextStatus ==
    \/ EngineWork
    \/ Op_sqlite3_status
    \/ Op_sqlite3_status64
    \/ \E c \in Handles : Op_sqlite3_db_status(c)

SpecStatus == InitValues /\ [][NextStatus]_vars

(***************************************************************************)
(* The output storage of the adaptors with native output parameters: what  *)
(* each adaptor declares before the native call, what the engine leaves    *)
(* in it, and what the adaptor then does.                                  *)
(***************************************************************************)
OutputAdaptors ==
    OpenOps \cup PrepareOps \cup StatusOps
        \cup {"sqlite3_exec", "sqlite3_table_column_metadata", "sqlite3_stmt_scanstatus"}

\* The content of a variable declared without an initializer.
Indeterminate == {0, 1, Word - 1}

\* The output variables an adaptor declares, with the values they can hold
\* when their addresses are passed to the native operation.
output_storage(op) ==
    CASE op \in OpenOps -> {[connect |-> nullptr]}
      [] op \in PrepareOps -> {[stmt |-> nullptr, pos |-> nullptr]}
      [] op = "sqlite3_exec" -> {[errorOut |-> nullptr]}
      [] op \in StatusOps -> {[current |-> 0, highwater |-> 0]}
      [] op = "sqlite3_table_column_metadata" ->
             {[type |-> nullptr, colSeq |-> nullptr, notNull |-> 0,
               primaryKey |-> 0, autoInc |-> 0]}
      [] op = "sqlite3_stmt_scanstatus" -> {[val |-> v] : v \in Indeterminate}

\* The native operation writes its outputs when it succeeds and leaves the
\* storage as it found it when it fails.
native_output(op, storage) ==
    {[code |-> SQLITE_OK, storage |-> [f \in DOMAIN storage |-> v]] : v \in {1, 2}}
    \cup {[code |-> c, storage |-> storage] : c \in {EngineCode.error, EngineCode.busy, EngineCode.nomem}}

\* The first argument the adaptor forwards: the connection, the statement,
\* or something else.
OutputArgs(op, c, st) ==
    CASE op \in OpenOps -> <<Arg("sqlite3_t", nullptr)>>
      [] op \in {"sqlite3_status", "sqlite3_status64"} -> <<Arg("int", 0)>>
      [] op = "sqlite3_stmt_scanstatus" -> <<Arg("sqlite3_stmt_t", st)>>
      [] OTHER -> <<Arg("sqlite3_t", c)>>

\* Declare the storage, make the call, classify, then reshape the storage
\* into the returned value.
output_adaptor(nat, op, c, st) ==
    UNION {{[storage |-> init, native |-> r,
             out |-> IF result_is_error(r.code)
                     THEN Raised(throw_error(nat, r.code, OutputArgs(op, c, st)))
                     ELSE Returned(r.storage)] : r \in native_output(op, init)} :
           init \in output_storage(op)}

Op_output_adaptor(op) ==
    /\ ret = NoCall
    /\ LiveConnection(1)
    /\ op = "sqlite3_stmt_scanstatus" => LiveStatement(2)
    /\ \E r \in output_adaptor(native, op, obj[1].h, obj[2].h) :
           ret' = ValueCall(op, [storage |-> r.storage], r.native, r.out)
    /\ UNCHANGED <<obj, native, initOK, shutdowns, last, code, verdict, stat, pc>>

NextOutputs == \E op \in OutputAdaptors : Op_output_adaptor(op)

SpecOutputs == InitValues /\ [][NextOutputs]_vars

\* SQL text: the smallest code unit stands for the semicolon that ends a
\* statement, the other for any other character.
Semicolon == CHOOSE u \in Units : \A v \in Units : u <= v

SqlTexts == UNION {[1..n -> Units] : n \in 0..MaxSql}

\* Byte addresses at which the caller's buffer starts.
SqlAddresses == {4, 6}

\* sizeof(utf8_traits::char_type), sizeof(utf16_traits::char_type).
char_size(op) == IF op \in {"sqlite3_prepare16", "sqlite3_prepare16_v2"} THEN 2 ELSE 1

\* Pointer arithmetic on byte addresses for elements of a given size.
ptr_diff(p, q, size) == (p - q) \div size

ptr_add(p, n, size) == p + n * size

\* ::sqlite3_prepare and its variants: the engine reads nByte bytes at
\* zSql, compiles the text up to and including the first semicolon, and
\* stores in *pzTail the address of the first byte it did not consume.
native_prepare_tail(zSql, buf, nByte, size) ==
    LET n == nByte \div size
        ends == {i \in 1..n : buf[i] = Semicolon}
        consumed == IF ends = {} THEN n
                    ELSE CHOOSE i \in ends : \A j \in ends : i <= j
    IN zSql + consumed * size

prepare_remainder_in_bytes(sql, pos, size) == ptr_add(sql, pos - sql, size)

\* sql + (pos - sql), with pos reinterpreted as a pointer to the code units
\* of sql.
prepare_remainder(sql, pos, size) == ptr_add(sql, ptr_diff(pos, sql, size), size)

\* sqlite3_prepare / sqlite3_prepare_v2 with the text: the byte count is
\* traits::length(sql) * sizeof(char_type); the result is the statement and
\* the remainder.
Op_sqlite3_prepare_sql(op, c, s) ==
    /\ ret = NoCall
    /\ LiveConnection(c)
    /\ obj[s] = Dead
    /\ \E sql \in SqlAddresses, text \in SqlTexts :
       \E r \in sqlite3_prepare(native, obj[c].h) :
           LET buf == Append(text, 0)
               nByte == length(buf) * char_size(op)
               pos == native_prepare_tail(sql, buf, nByte, char_size(op))
           IN /\ obj' = [obj EXCEPT ![s] = r.ret]
              /\ native' = r.nat
              /\ last' = Last(op, r.exc, obj[c].h)
              /\ ret' = ValueCall(op, [sql |-> sql, text |-> text, s |-> s],
                                  [nByte |-> nByte, pzTail |-> pos],
                                  IF r.exc.thrown THEN Raised(r.exc)
                                  ELSE Returned(<<r.ret,
                                                  prepare_remainder(sql, pos, char_size(op))>>))
    /\ UNCHANGED <<initOK, shutdowns, code, verdict, stat, pc>>

NextPrepare ==
    \/ \E s \in Slots : Op_sqlite3_open(s)
    \/ \E op \in PrepareOps, c, s \in Slots : Op_sqlite3_prepare_sql(op, c, s)
    \/ \E s \in Slots : Op_sqlite3_finalize(s)

SpecPrepare == Init /\ [][NextPrepare]_vars

\* ::sqlite3_step on a live statement: a row, the end of the rows, or a
\* failure with the error text left on the statement's connection.
native_step(nat, st) ==
    {Outcome(SQLITE_ROW, nat), Outcome(SQLITE_DONE, nat), Outcome(EngineCode.busy, nat),
     Outcome(EngineCode.error,
             [nat EXCEPT ![nat[st].parent].errmsg = "UNIQUE constraint failed: t.c"])}

sqlite3_step_done_is_error(nat, st) ==
    {[out |-> IF result_is_error(r.code) \/ r.code = SQLITE_DONE
              THEN Raised(throw_error(r.nat, r.code, <<Arg("sqlite3_stmt_t", st)>>))
              ELSE Returned(r.code),
      nat |-> r.nat, rc |-> r.code] : r \in native_step(nat, st)}

\* sqlite3_step: the code of a non-failing step, cast to step_result_t.
sqlite3_step(nat, st) ==
    {[out |-> IF result_is_error(r.code)
              THEN Raised(throw_error(r.nat, r.code, <<Arg("sqlite3_stmt_t", st)>>))
              ELSE Returned(r.code),
      nat |-> r.nat, rc |-> r.code] : r \in native_step(nat, st)}

(***************************************************************************)
(* The adaptors that act on a statement and return nothing: the            *)
(* sqlite3_bind overloads, sqlite3_bind_text, sqlite3_reset and            *)
(* sqlite3_clear_bindings forward the statement handle first.              *)
(***************************************************************************)
StatementOps ==
    {"sqlite3_bind", "sqlite3_bind_text", "sqlite3_reset", "sqlite3_clear_bindings"}

\* What the engine reports when the operation fails: a reset repeats the
\* failure of the last step, a bind or a clear_bindings is refused.
StatementOpFailure(op) ==
    IF op = "sqlite3_reset"
    THEN [code |-> EngineCode.error, text |-> "UNIQUE constraint failed: t.c"]
    ELSE [code |-> EngineCode.misuse, text |-> "bad parameter or other API misuse"]

statement_adaptor(nat, op, st) ==
    {Done(invoke_with_result_error(r.nat, r.code, <<Arg("sqlite3_stmt_t", st), Arg("int", 0)>>),
          r.nat) :
        r \in native_on_statement(nat, st, StatementOpFailure(op).code,
                                  StatementOpFailure(op).text)}

Op_statement(op, s) ==
    /\ LiveStatement(s)
    /\ \E r \in statement_adaptor(native, op, obj[s].h) :
        /\ native' = r.nat
        /\ last' = Last(op, r.exc, obj[s].h)
    /\ UNCHANGED <<obj, initOK, shutdowns, code, verdict, stat, ret, pc>>

Op_sqlite3_step(s) ==
    /\ LiveStatement(s)
    /\ \E r \in sqlite3_step(native, obj[s].h) :
        /\ native' = r.nat
        /\ last' = Last("sqlite3_step", r.out.exc, obj[s].h)
    /\ UNCHANGED <<obj, initOK, shutdowns, code, verdict, stat, ret, pc>>

NextStatement ==
    \/ \E s \in Slots : Op_sqlite3_open(s)
    \/ \E op \in PrepareOps : \E c, s \in Slots : Op_sqlite3_prepare(op, c, s)
    \/ \E op \in StatementOps : \E s \in Slots : Op_statement(op, s)
    \/ \E s \in Slots : Op_sqlite3_step(s)
    \/ \E s \in Slots : Op_sqlite3_finalize(s)

SpecStatement == Init /\ [][NextStatement]_vars

(***************************************************************************)
(* The round-trip program:                                                 *)
(*     auto c = sqlite3_open_v2(file, create | readwrite);                 *)
(*     auto s = sqlite3_prepare_v2(c.get(), "SELECT 1");                   *)
(*     sqlite3_step(s.get()); sqlite3_column_int(s.get(), 0);              *)
(*     sqlite3_step(s.get());                                              *)
(*     sqlite3_finalize(std::move(s)); sqlite3_close(std::move(c));        *)
(* with c in slot 1 and s in slot 2, both destroyed when the scope is      *)
(* left, normally or by a raised error.  The engine is free to misbehave;  *)
(* pc.well records that it has not.                                        *)
(***************************************************************************)
\* The values column 0 of the row can hold: 0, 1, 2, 65535 and 2^32 + 1.
ColumnValues ==
    {<<0, 0, 0, 0>>, <<0, 0, 0, 1>>, <<0, 0, 0, 2>>, <<0, 0, 0, Word - 1>>, <<0, 1, 0, 1>>}

One == <<0, 0, 0, 1>>

\* The program after a call: where it goes, what it has seen.
After(next, well, result, exc) ==
    [at |-> IF exc.thrown THEN "exit" ELSE next,
     well |-> pc.well /\ well,
     results |-> IF exc.thrown THEN pc.results ELSE Append(pc.results, result),
     raised |-> exc.thrown]

RT_open ==
    /\ pc.at = "open"
    /\ \E r \in open_connection(native) :
        /\ obj' = [obj EXCEPT ![1] = r.ret]
        /\ native' = r.nat
        /\ last' = Last("sqlite3_open_v2", r.exc, r.h)
        /\ pc' = After("prepare", r.rc = SQLITE_OK /\ r.h # nullptr, "opened", r.exc)
    /\ UNCHANGED <<initOK, shutdowns, code, verdict, stat, ret>>

RT_prepare ==
    /\ pc.at = "prepare"
    /\ \E r \in sqlite3_prepare(native, obj[1].h) :
        /\ obj' = [obj EXCEPT ![2] = r.ret]
        /\ native' = r.nat
        /\ last' = Last("sqlite3_prepare_v2", r.exc, obj[1].h)
        /\ pc' = After("step", r.rc = SQLITE_OK /\ r.ret # Dead /\ r.ret.h # nullptr,
                       "prepared", r.exc)
    /\ UNCHANGED <<initOK, shutdowns, code, verdict, stat, ret>>

\* The first step is expected to give the row, the second the end.
RT_step ==
    /\ pc.at \in {"step", "step_again"}
    /\ obj[2].h # nullptr
    /\ \E r \in sqlite3_step(native, obj[2].h) :
        /\ native' = r.nat
        /\ last' = Last("sqlite3_step", r.out.exc, obj[2].h)
        /\ pc' = After(IF pc.at = "step" THEN "column" ELSE "finalize",
                       r.rc = (IF pc.at = "step" THEN SQLITE_ROW ELSE SQLITE_DONE),
                       IF r.out.returned THEN r.out.value ELSE "none", r.out.exc)
    /\ UNCHANGED <<obj, initOK, shutdowns, code, verdict, stat, ret>>

\* Stepping a null statement is a misuse the engine reports.
RT_step_null ==
    /\ pc.at \in {"step", "step_again"}
    /\ obj[2].h = nullptr
    /\ LET exc == invoke_with_result_error(native, EngineCode.misuse,
                                           <<Arg("sqlite3_stmt_t", nullptr)>>)
       IN /\ last' = Last("sqlite3_step", exc, nullptr)
          /\ pc' = After("exit", FALSE, "none", exc)
    /\ UNCHANGED <<obj, native, initOK, shutdowns, code, verdict, stat, ret>>

RT_column_int ==
    /\ pc.at = "column"
    /\ \E v \in ColumnValues :
        /\ last' = Last("sqlite3_column_int", NoThrow, obj[2].h)
        /\ pc' = After("step_again", v = One, int_value(sqlite3_column_int(v).value),
                       NoThrow)
    /\ UNCHANGED <<obj, native, initOK, shutdowns, code, verdict, stat, ret>>

RT_finalize ==
    /\ pc.at = "finalize"
    /\ \E r \in sqlite3_finalize(native, obj[2]) :
        /\ obj' = [obj EXCEPT ![2] = r.w]
        /\ native' = r.nat
        /\ last' = Last("sqlite3_finalize", r.exc, obj[2].h)
        /\ pc' = After("close", r.rc = SQLITE_OK, "finalized", r.exc)
    /\ UNCHANGED <<initOK, shutdowns, code, verdict, stat, ret>>

RT_close ==
    /\ pc.at = "close"
    /\ \E r \in sqlite3_close(native, obj[1]) :
        /\ obj' = [obj EXCEPT ![1] = r.w]
        /\ native' = r.nat
        /\ last' = Last("sqlite3_close", r.exc, obj[1].h)
        /\ pc' = After("exit", r.rc = SQLITE_OK, "closed", r.exc)
    /\ UNCHANGED <<initOK, shutdowns, code, verdict, stat, ret>>

\* Leaving the scope: s is destroyed, then c.
RT_exit ==
    /\ pc.at = "exit"
    /\ \E d2 \in (IF IsWrapper(obj[2])
                  THEN unique_ptr_dtor(obj[2].kind, native, obj[2].h)
                  ELSE {Deleted(SQLITE_OK, NoThrow, native)}) :
       \E d1 \in (IF IsWrapper(obj[1])
                  THEN unique_ptr_dtor(obj[1].kind, d2.nat, obj[1].h)
                  ELSE {Deleted(SQLITE_OK, NoThrow, d2.nat)}) :
           /\ native' = d1.nat
           /\ obj' = [s \in Slots |-> IF s \in {1, 2} THEN Dead ELSE obj[s]]
           /\ last' = ObjectOp("destroy", "scope", d1.exc, nullptr, d1.rc)
           /\ pc' = [pc EXCEPT !.at = "left"]
    /\ UNCHANGED <<initOK, shutdowns, code, verdict, stat, ret>>

NextRoundTrip ==
    \/ RT_open
    \/ RT_prepare
    \/ RT_step
    \/ RT_step_null
    \/ RT_column_int
    \/ RT_finalize
    \/ RT_close
    \/ RT_exit

SpecRoundTrip == Init /\ [][NextRoundTrip]_vars

(***************************************************************************)
(* Properties.                                                             *)
(***************************************************************************)
NonErrorCodes == {SQLITE_OK, SQLITE_ROW, SQLITE_DONE}

\* The text of an error raised for code c with the detail text t.
Message(c, t) == <<"SQLite error(", c, ")", ": ", t>>

Holds(s, h) == IsWrapper(obj[s]) /\ obj[s].h = h

\* C1: a code is classified as non-error exactly when it is SQLITE_OK,
\* SQLITE_ROW or SQLITE_DONE, and a call is made to raise exactly for the
\* codes classified as errors.
C1_Classification ==
    verdict.classified =>
        /\ verdict.is_error = (code \notin NonErrorCodes)
        /\ verdict.raised = verdict.is_error

C1_Witness == verdict.classified /\ code = SQLITE_DONE /\ ~verdict.is_error

\* The adaptors of C2 that are given a connection, and those that are not.
WithConnection ==
    PrepareOps \cup ConnectionOps
        \cup {"sqlite3_close", "sqlite3_close_v2", "sqlite3_backup_init"}

WithoutConnection ==
    GlobalOps \cup {"sqlite3_initialize", "sqlite3_complete"}

\* C2: an error raised by an adaptor that is given a connection carries
\* that connection's last-error text; an error raised by an adaptor with
\* no connection carries the global text of the code.
C2_ErrorText ==
    last.exc.thrown =>
        /\ last.op \in WithConnection =>
               last.exc.what = Message(last.exc.code, native[last.h].errmsg)
        /\ last.op \in WithoutConnection =>
               last.exc.what = Message(last.exc.code, sqlite3_errstr(last.exc.code))

C2_Witness ==
    /\ last.op = "sqlite3_close"
    /\ last.exc.thrown
    /\ native[last.h].errmsg # sqlite3_errstr(last.exc.code)

\* C3: no native close function is called on a connection that was closed
\* before, and no wrapper holds a closed connection.
C3_ClosedOnce ==
    \A h \in Handles :
        native[h].kind = "sqlite3" =>
            /\ ~native[h].misused
            /\ native[h].state = "released" => \A s \in Slots : ~Holds(s, h)

\* C4: after sqlite3_backup_finish, whatever the code, no wrapper holds the
\* backup handle and native finish was called on it once only.
C4_FinishDisarms ==
    (last.op = "sqlite3_backup_finish" /\ last.h # nullptr) =>
        /\ \A s \in Slots : ~Holds(s, last.h)
        /\ native[last.h].state = "released"
        /\ ~native[last.h].misused

\* C5: once every token is destroyed, there were as many shutdown calls as
\* successful initialize calls.
C5_ShutdownPerInitialize ==
    (\A s \in Slots : ~IsToken(obj[s])) => shutdowns = initOK

\* C6: move-constructing from a Live token leaves the source Moved and the
\* new token Live and shuts nothing down; destroying a Moved token shuts
\* nothing down and destroying a Live one shuts down once; handing a Live
\* token to sqlite3_shutdown shuts down once, in that call, and leaves the
\* caller's token Moved.
C6_MoveThenDestroy ==
    last.kind = "initialize_t" =>
        /\ (last.op = "move_construct" /\ ~last.was.moved) =>
               /\ obj[last.src] = Token(TRUE)
               /\ obj[last.dst] = Token(FALSE)
               /\ last.calls = 0
        /\ last.op = "destroy" => last.calls = (IF last.was.moved THEN 0 ELSE 1)
        /\ (last.op = "sqlite3_shutdown" /\ ~last.was.moved) =>
               /\ last.calls = 1
               /\ obj[last.src] = Token(TRUE)

C6_Witness ==
    /\ last.kind = "initialize_t"
    /\ last.op = "destroy"
    /\ ~last.was.moved
    /\ \E s \in Slots : obj[s] = Token(TRUE)
    /\ initOK = 1
    /\ shutdowns = 1

\* C7: a failing open raises, returns no wrapper, and a connection it
\* produced is closed by it, once.
C7_FailedOpenCloses ==
    [][(last'.op \in OpenOps /\ last'.exc.thrown) =>
          /\ obj' = obj
          /\ last'.h # nullptr =>
                 /\ native[last'.h].state = "unalloc"
                 /\ native'[last'.h] = Released("sqlite3", FALSE)]_vars

C7_Witness ==
    /\ last.op = "sqlite3_open_v2"
    /\ last.exc.thrown
    /\ last.h # nullptr
    /\ native[last.h].state = "released"

\* C8: sqlite3_exec raises for a failing code with the text of the message
\* string the engine allocated, after freeing that string once; for a
\* non-failing code it raises nothing; no message string is left unfreed.
C8_ExecMessage ==
    last.op = "sqlite3_exec" =>
        /\ (last.rc \notin NonErrorCodes /\ last.alloc) =>
               /\ last.exc.thrown
               /\ last.exc.what = Message(last.rc, last.msg)
               /\ last.events = <<"sqlite3_free", "throw">>
        /\ last.rc \in NonErrorCodes => ~last.exc.thrown
        /\ last.alloc => last.freed = 1

C8_Witness ==
    /\ last.op = "sqlite3_exec"
    /\ last.exc.thrown
    /\ last.alloc
    /\ last.freed = 1

\* C9: destroying a wrapper or a token raises nothing, whatever code the
\* native release or shutdown returned.
C9_CleanupNeverRaises ==
    last.op = "destroy" => ~last.exc.thrown

C9_Witness ==
    /\ last.op = "destroy"
    /\ last.kind = "unique_statement"
    /\ last.rc \notin NonErrorCodes

\* C10: releasing a wrapper whose resource is already released, by
\* sqlite3_close, sqlite3_finalize, sqlite3_backup_finish or destruction,
\* raises nothing and calls no native release on the resource.
C10_ReleaseIdempotent ==
    [][(/\ last'.op \in {"sqlite3_close", "sqlite3_finalize",
                          "sqlite3_backup_finish", "destroy"}
        /\ (last'.h = nullptr \/ native[last'.h].state = "released")) =>
          /\ ~last'.exc.thrown
          /\ native' = native]_vars

\* The text behind a non-null character pointer.
TextOf(p) == SubSeq(p.buf, 1, Len(p.buf) - 1)

\* C11: a string accessor whose native call returns a null pointer returns
\* the empty string and raises nothing; a non-null pointer gives its text.
C11_NullIsEmptyString ==
    ret.op \in StringAccessors =>
        /\ ret.out.returned
        /\ ~ret.out.exc.thrown
        /\ ret.native.null => ret.out.value = <<>>
        /\ ~ret.native.null => ret.out.value = TextOf(ret.native)

C11_Witness ==
    /\ ret.op = "sqlite3_column_text16"
    /\ ret.native.null
    /\ ret.out.returned
    /\ ret.out.value = <<>>

\* C12: when a successful native sqlite3_table_column_metadata leaves the
\* type-name or the collation-name pointer null, the tuple is returned with
\* an empty string in that place.
C12_NullNamesAreEmpty ==
    (/\ ret.op = "sqlite3_table_column_metadata"
     /\ ret.native.code \in NonErrorCodes
     /\ (ret.native.type.null \/ ret.native.colSeq.null)) =>
        /\ ret.out.returned
        /\ ret.native.type.null => ret.out.value[1] = <<>>
        /\ ret.native.colSeq.null => ret.out.value[2] = <<>>

C14_StatusPair ==
    ret.op \in StatusOps =>
        /\ ret.native.code \in NonErrorCodes =>
              /\ ret.out.returned
              /\ ret.out.value = <<ret.in.stat.current, ret.in.stat.highwater>>
        /\ ret.native.code \notin NonErrorCodes =>
              /\ ~ret.out.returned
              /\ ret.out.exc.thrown

C14_Witness ==
    /\ ret.op = "sqlite3_status"
    /\ ret.in.reset
    /\ ret.out.returned
    /\ ret.out.value = <<1, 2>>
    /\ stat = [current |-> 1, highwater |-> 1]

\* C16: sqlite3_backup_step returns sqlite_ok and sqlite_done as values,
\* raises for every other code of the engine, busy and locked included,
\* and hands the page count to the engine unchanged.
C16_BackupStep ==
    ret.op = "sqlite3_backup_step" =>
        /\ ret.native.n = ret.in.n
        /\ ret.native.code \in NonErrorCodes =>
              /\ ret.out.returned
              /\ ret.out.value = ret.native.code
        /\ ret.native.code \notin NonErrorCodes =>
              /\ ~ret.out.returned
              /\ ret.out.exc.thrown
              /\ ret.out.exc.code = ret.native.code

C16_Witness ==
    /\ ret.op = "sqlite3_backup_step"
    /\ ret.in.n < 0
    /\ ret.native.code = EngineCode.busy
    /\ ret.out.exc.thrown

\* C17: sqlite3_column_int64 returns the stored 64-bit value unchanged.
C17_Int64Unchanged ==
    ret.op = "sqlite3_column_int64" =>
        /\ ret.out.returned
        /\ ret.out.value = ret.native

\* C20: the six scan-status keys, and no other, have a storage type; it is
\* the type the engine writes for the key; the value returned is the
\* engine's, as a string for name and explain; a failing code raises and
\* returns nothing.
ScanStatusStorage ==
    [sqlite_scanstat_nloop |-> "sqlite3_int64", sqlite_scanstat_nvisit |-> "sqlite3_int64",
     sqlite_scanstat_est |-> "double", sqlite_scanstat_name |-> "const char*",
     sqlite_scanstat_explain |-> "const char*", sqlite_scanstat_selectid |-> "int"]

C15_PrepareRemainder ==
    (ret.op \in PrepareOps /\ ret.out.returned) =>
        LET sql == ret.in.sql
            n == Len(ret.in.text)
            w == IF ret.op \in {"sqlite3_prepare", "sqlite3_prepare_v2"} THEN 1 ELSE 2
            remainder == ret.out.value[2]
        IN /\ last.op = ret.op => ret.out.value[1] = obj[ret.in.s]
           /\ ret.out.value[1].kind = "unique_statement"
           /\ remainder = ret.native.pzTail
           /\ sql <= remainder /\ remainder <= sql + n * w
           /\ ret.in.text = <<2, 1, 2, 1>> => remainder = sql + 2 * w
           /\ ret.in.text \in {<<2, 2>>, <<2, 1>>} => remainder = sql + n * w

C15_Witness ==
    /\ ret.op = "sqlite3_prepare16_v2"
    /\ ret.out.returned
    /\ ret.in.text = <<2, 1, 2, 1>>
    /\ ret.in.sql = 4
    /\ ret.out.value[2] = 8
    /\ ret.out.value[1].h # nullptr

\* C18: a failing sqlite3_initialize raises, leaves no token behind and
\* causes no sqlite3_shutdown call; tokens exist only after a successful
\* initialize.
C18_NoTokenOnFailure ==
    [][/\ (last'.op = "sqlite3_initialize" /\ last'.exc.thrown) =>
             /\ obj' = obj
             /\ shutdowns' = shutdowns
             /\ initOK' = initOK
       /\ (last'.op = "sqlite3_initialize" /\ ~last'.exc.thrown) =>
             initOK' = initOK + 1
       /\ (\E s \in Slots : IsToken(obj'[s])) => initOK' >= 1]_vars

C18_Witness ==
    /\ last.op = "sqlite3_initialize"
    /\ last.exc.thrown
    /\ last.exc.code = EngineCode.nomem
    /\ \A s \in Slots : ~IsToken(obj[s])
    /\ initOK = 0
    /\ shutdowns = 0

\* C19: over an engine that behaves (open, prepare, finalize and close
\* succeed, the steps give row then done, column 0 holds 1) the round trip
\* raises nothing, returns row, 1 and done as values, and leaves both
\* wrappers empty with the statement and the connection released by exactly
\* one native call each.
C19_RoundTrip ==
    /\ pc.well => ~pc.raised
    /\ (pc.well /\ pc.at \in {"exit", "left"}) =>
          /\ pc.results = <<"opened", "prepared", SQLITE_ROW, 1, SQLITE_DONE,
                            "finalized", "closed">>
          /\ \A h \in Handles :
                native[h].state # "unalloc" =>
                    native[h].state = "released" /\ ~native[h].misused
          /\ {native[h].kind : h \in {g \in Handles : native[g].state = "released"}}
                = {"sqlite3", "sqlite3_stmt"}
          /\ pc.at = "exit" => /\ obj[1] = Wrapper("unique_connection", nullptr)
                               /\ obj[2] = Wrapper("unique_statement", nullptr)

C19_Witness ==
    /\ pc.well
    /\ pc.at = "left"
    /\ Len(pc.results) = 7
    /\ \E h \in Handles : native[h] = Released("sqlite3_stmt", FALSE)
    /\ \E h \in Handles : native[h] = Released("sqlite3", FALSE)

\* C21: an error raised by sqlite3_step, a sqlite3_bind overload,
\* sqlite3_bind_text, sqlite3_reset or sqlite3_clear_bindings on a statement
\* prepared on a connection carries that connection's last-error text.
C21_StatementErrorText ==
    (last.op \in StatementOps \cup {"sqlite3_step"} /\ last.exc.thrown) =>
        last.exc.what = Message(last.exc.code, native[native[last.h].parent].errmsg)

\* C22: a sqlite3_close that fails raises and changes no object, the
\* unique_connection still holding the handle it held; a sqlite3_close that
\* does not fail empties that wrapper and no other.
C22_CloseKeepsOwnership ==
    [][(last'.op = "sqlite3_close" /\ last'.kind = "adaptor") =>
          /\ last'.exc.thrown <=> last'.rc \notin NonErrorCodes
          /\ last'.exc.thrown =>
                /\ obj' = obj
                /\ \E s \in Slots : obj'[s] = Wrapper("unique_connection", last'.h)
                /\ last'.h # nullptr
                /\ native'[last'.h].state = "live"
          /\ ~last'.exc.thrown =>
                obj' = [s \in Slots |->
                           IF obj[s] = Wrapper("unique_connection", last'.h)
                           THEN Wrapper("unique_connection", nullptr)
                           ELSE obj[s]]]_vars

C22_Witness ==
    /\ last.op = "sqlite3_close"
    /\ last.kind = "adaptor"
    /\ last.exc.thrown
    /\ last.rc = EngineCode.busy
    /\ \E s \in Slots : obj[s] = Wrapper("unique_connection", last.h)
    /\ native[last.h].state = "live"
    /\ Dependents(native, last.h) # {}

\* C23: after sqlite3_finalize of a statement, failing or not, no wrapper
\* holds the statement, the engine has released it, no second native
\* finalize was ever made on a statement, and the call raised exactly for a
\* failing code.
C23_FinalizeDisarms ==
    /\ (last.op = "sqlite3_finalize" /\ last.kind = "adaptor") =>
          /\ last.exc.thrown <=> last.rc \notin NonErrorCodes
          /\ last.exc.thrown => last.exc.code = last.rc
          /\ last.h # nullptr =>
                /\ \A s \in Slots : ~Holds(s, last.h)
                /\ native[last.h] = Released("sqlite3_stmt", FALSE)
    /\ \A h \in Handles : native[h].kind = "sqlite3_stmt" => ~native[h].misused

C23_Witness ==
    /\ last.op = "sqlite3_finalize"
    /\ last.kind = "adaptor"
    /\ last.exc.thrown
    /\ last.rc = EngineCode.error
    /\ native[last.h] = Released("sqlite3_stmt", FALSE)
    /\ \A s \in Slots : ~Holds(s, last.h)

\* C24: destroying a unique_connection that holds a connection closes it,
\* whatever depends on it and in whatever order the wrappers are destroyed;
\* when no wrapper is left the engine has no connection, statement or
\* backup alive.
C24_DestructionCloses ==
    /\ (last.op = "destroy" /\ last.kind = "unique_connection" /\ last.h # nullptr) =>
          native[last.h].state = "released"
    /\ (\A s \in Slots : ~IsWrapper(obj[s])) =>
          \A h \in Handles : native[h].state # "live"

\* C25: every adaptor with native output parameters passes output storage
\* that holds zero or null, and after a failing code it raises and returns
\* no value.
C25_OutputStorage ==
    ret.op \in OutputAdaptors =>
        /\ \A f \in DOMAIN ret.in.storage : ret.in.storage[f] = 0
        /\ ret.native.code \notin NonErrorCodes =>
              ret.out.exc.thrown /\ ~ret.out.returned

\* C26: an adaptor call makes its native call once: sqlite3_close and
\* sqlite3_finalize raise exactly for a failing code of that one call, and
\* a release adaptor given a live resource leaves it without a second
\* native release made on it.
C26_SingleNativeCall ==
    [][/\ (last'.op \in {"sqlite3_close", "sqlite3_finalize"} /\ last'.kind = "adaptor") =>
             /\ last'.exc.thrown <=> last'.rc \notin NonErrorCodes
             /\ last'.exc.thrown => last'.exc.code = last'.rc
       /\ (/\ last'.op \in {"sqlite3_close", "sqlite3_close_v2", "sqlite3_finalize",
                            "sqlite3_backup_finish"}
           /\ last'.kind = "adaptor"
           /\ last'.h # nullptr
           /\ native[last'.h].state = "live") =>
             ~native'[last'.h].misused]_vars

\* C27 as stated: the error raised by a failing sqlite3_open,
\* sqlite3_open16 or sqlite3_open_v2 carries the global text of the code.
C27_OpenGlobalText ==
    (last.op \in OpenOps /\ last.exc.thrown) =>
        last.exc.what = Message(last.exc.code, sqlite3_errstr(last.exc.code))

\* C27, amended: the error raised by a failing open carries the last-error
\* text the engine left on the connection the open produced, and the
\* out-of-memory text when it produced none.
C27_OpenErrorText ==
    (last.op \in OpenOps /\ last.exc.thrown) =>
        last.exc.what = Message(last.exc.code,
                                IF last.h = nullptr THEN "out of memory" ELSE last.left)

C27_Witness ==
    /\ last.op = "sqlite3_open_v2"
    /\ last.exc.thrown
    /\ last.h # nullptr
    /\ last.left = "no such vfs: none"
    /\ last.left # sqlite3_errstr(last.exc.code)
    /\ native[last.h].state = "released"

\* C28: for every failing code, with or without a message string from the
\* engine, sqlite3_exec raises an error that starts with the numeric-code
\* prefix, and it reads and frees no invalid pointer.
C28_ExecWellFormed ==
    (last.op = "sqlite3_exec" /\ last.rc \notin NonErrorCodes) =>
        /\ last.exc.thrown
        /\ SubSeq(last.exc.what, 1, 3) = error_string_without_details(last.rc)
        /\ ~last.ub

\* The value of a byte counter the native function received, and the
\* product of a length and a code-unit size, both as five words: a negative
\* counter has no such value.
CounterValue(type, n) ==
    IF type = "int"
    THEN IF n[1] >= SignWord THEN <<"negative">> ELSE <<0, 0, 0, n[1], n[2]>>
    ELSE <<0>> \o n

ExactProduct(v, k) ==
    LET p4 == v[4] * k
        p3 == v[3] * k + p4 \div Word
        p2 == v[2] * k + p3 \div Word
        p1 == v[1] * k + p2 \div Word
    IN <<p1 \div Word, p1 % Word, p2 % Word, p3 % Word, p4 % Word>>

\* C29: the byte count each sqlite3_bind_text overload hands to the native
\* function is the length times the size of a code unit, unchanged by the
\* conversion to the counter type, and the destructor is the transient
\* marker.
C29_BindTextByteCount ==
    ret.op = "sqlite3_bind_text" =>
        /\ CounterValue(ret.native.counter, ret.native.n)
              = ExactProduct(ret.in.length, ret.in.overload.char_type)
        /\ ret.native.destructor = "sqlite_transient"

\* C30: move-assigning a token to itself changes no object and shuts
\* nothing down; move-assigning from another token makes the source Moved,
\* leaves every other object, the destination included, as it was, and
\* shuts nothing down.
C30_MoveAssign ==
    [][last'.kind = "initialize_t" =>
          /\ last'.op = "self_assign" =>
                /\ obj' = obj
                /\ shutdowns' = shutdowns
                /\ ~last'.exc.thrown
          /\ last'.op = "move_assign" =>
                /\ obj' = [obj EXCEPT ![last'.src] = Token(TRUE)]
                /\ obj'[last'.dst] = obj[last'.dst]
                /\ shutdowns' = shutdowns
                /\ ~last'.exc.thrown]_vars

C30_Witness ==
    /\ last.kind = "initialize_t"
    /\ last.op = "self_assign"
    /\ last.src = last.dst
    /\ ~last.was.moved
    /\ obj[last.src] = Token(FALSE)
    /\ \E s \in Slots : obj[s] = Token(TRUE)
    /\ shutdowns = 0

====
